---- MODULE Spec2Model ----
(***************************************************************************)
(* nano-pdf (pi-skills/nano-pdf/scripts/nano-pdf.py): the `edit` command.  *)
(* edit_pdf validates the page specifier, edit_with_pymupdf interprets the *)
(* instruction against every target page and saves the document.           *)
(*                                                                         *)
(* Strings are sequences of one-character strings, so that lower(),        *)
(* strip(), `in`, int() and the four regular expressions are computed      *)
(* character by character as Python computes them.  The PyMuPDF calls are  *)
(* modelled by their documented effect on a page that is a list of blocks; *)
(* the name `fitz` is taken to resolve inside edit_with_pymupdf.           *)
(*                                                                         *)
(* voice_call (.pi/skills/voice-call/scripts/voice_call.py): main picks    *)
(* the provider with get_provider and dispatches one operation to it;      *)
(* MockProvider keeps its calls in a dictionary.                           *)
(***************************************************************************)
EXTENDS Integers, Sequences, FiniteSets, TLC

\* nano-pdf.py
VARIABLES pc, args_output, page, instruction, output_path, disk, doc,
          pages_to_edit, k, instruction_lower, stdout, stderr, exit_status,
          ops, edits

\* voice_call.py
VARIABLES vpc, args, environ, provider, calls, op, result, verr, selections,
          clock, exit_code

pdf_vars == <<pc, args_output, page, instruction, output_path, disk, doc,
              pages_to_edit, k, instruction_lower, stdout, stderr,
              exit_status, ops, edits>>

voice_vars == <<vpc, args, environ, provider, calls, op, result, verr,
                selections, clock, exit_code>>

vars == <<pdf_vars, voice_vars>>

(***************************************************************************)
(* Bounds of the model.                                                    *)
(***************************************************************************)
\* the documents have 1..MaxPages pages
MaxPages == 2
\* the busiest page has MaxBlocks blocks
MaxBlocks == 12
\* the longest block text has MaxTextLen characters
MaxTextLen == 101
\* the clock of a MockProvider runs over the seconds 1..MaxClock
MaxClock == 2

(***************************************************************************)
(* Program constants.                                                      *)
(***************************************************************************)
\* blocks[:10]
ListedBlocks == 10
\* block[4][:100]
ListedChars == 100
\* block[6] == 0
TextBlockType == 0
\* call['duration'] = 30
SimulatedDuration == 30

(***************************************************************************)
(* Python string primitives.                                               *)
(***************************************************************************)
UPPER == <<"A", "B", "C", "D", "E", "F", "G", "H", "I", "J", "K", "L", "M", "N", "O", "P", "Q", "R", "S", "T", "U", "V", "W", "X", "Y", "Z">>
LOWER == <<"a", "b", "c", "d", "e", "f", "g", "h", "i", "j", "k", "l", "m", "n", "o", "p", "q", "r", "s", "t", "u", "v", "w", "x", "y", "z">>

lower_char(c) ==
  IF \E i \in 1..26 : UPPER[i] = c
  THEN LOWER[CHOOSE i \in 1..26 : UPPER[i] = c]
  ELSE c

\* str.lower()
lower(s) == [i \in 1..Len(s) |-> lower_char(s[i])]

\* the characters str.strip() removes and \s matches
IsSpace(c) == c \in {" ", "\t", "\n", "\r", "\f"}

\* the class ['"]
IsQuote(c) == c \in {"'", "\""}

\* s[i:i+len(w)] == w
StartsAt(s, w, i) ==
  /\ i >= 1
  /\ i + Len(w) - 1 <= Len(s)
  /\ \A j \in 1..Len(w) : s[i + j - 1] = w[j]

\* w in s
Contains(s, w) == \E i \in 1..(Len(s) - Len(w) + 1) : StartsAt(s, w, i)

\* str.strip()
strip(s) ==
  IF \A i \in 1..Len(s) : IsSpace(s[i]) THEN << >>
  ELSE LET a == CHOOSE i \in 1..Len(s) :
                  ~IsSpace(s[i]) /\ \A j \in 1..(i - 1) : IsSpace(s[j])
           b == CHOOSE i \in 1..Len(s) :
                  ~IsSpace(s[i]) /\ \A j \in (i + 1)..Len(s) : IsSpace(s[j])
       IN SubSeq(s, a, b)

\* s[:n]
Prefix(s, n) == SubSeq(s, 1, IF Len(s) < n THEN Len(s) ELSE n)

IsDigit(c) == c \in {"0", "1", "2", "3", "4", "5", "6", "7", "8", "9"}

DigitVal(c) == CHOOSE d \in 0..9 : <<"0", "1", "2", "3", "4", "5", "6", "7", "8", "9">>[d + 1] = c

RECURSIVE DigitsVal(_)
DigitsVal(ds) ==
  IF ds = << >> THEN 0
  ELSE 10 * DigitsVal(SubSeq(ds, 1, Len(ds) - 1)) + DigitVal(ds[Len(ds)])

\* int(page): surrounding whitespace, one optional sign, decimal digits;
\* anything else raises ValueError
IntParses(s) ==
  LET t == strip(s)
      d == IF t # << >> /\ t[1] \in {"+", "-"} THEN Tail(t) ELSE t
  IN d # << >> /\ \A i \in 1..Len(d) : IsDigit(d[i])

int(s) ==
  LET t == strip(s)
      neg == t[1] = "-"
      d == IF t[1] \in {"+", "-"} THEN Tail(t) ELSE t
  IN IF neg THEN 0 - DigitsVal(d) ELSE DigitsVal(d)

(***************************************************************************)
(* The regular expressions of edit_with_pymupdf, as re.search evaluates    *)
(* them: the leftmost start, and from it the first success in backtracking *)
(* order (a greedy item takes the most it can first, a lazy one the        *)
(* least).  A run of [^'"] is followed in every pattern by something that  *)
(* a character of the run cannot match, which fixes each optional quote    *)
(* and each greedy run; only the lengths of the lazy groups are searched.  *)
(***************************************************************************)
\* a match object: group(1) is s[a1..e1], group(2) is s[a2..e2] (empty when
\* the pattern has one group), and the match ends at last
NoMatch ==
  [matched |-> FALSE, g1 |-> << >>, g2 |-> << >>, a1 |-> 1, a2 |-> 1, last |-> 0]

Match(s, a1, e1, a2, e2, last) ==
  [matched |-> TRUE, g1 |-> SubSeq(s, a1, e1), g2 |-> SubSeq(s, a2, e2),
   a1 |-> a1, a2 |-> a2, last |-> last]

\* the position after an optional ['"]? at p
SkipQuote(s, p) == IF p <= Len(s) /\ IsQuote(s[p]) THEN p + 1 ELSE p

\* the position after an optional (?:the )? at p
SkipThe(s, p) == IF StartsAt(s, <<"t", "h", "e", " ">>, p) THEN p + 4 ELSE p

\* the end (exclusive) of the greedy run [^'"]* that starts at p
RunEnd(s, p) ==
  CHOOSE e \in p..(Len(s) + 1) :
    /\ \A j \in p..(e - 1) : ~IsQuote(s[j])
    /\ e = Len(s) + 1 \/ IsQuote(s[e])

\* $ : at the end, or before a newline that ends the string
AtEnd(s, p) == p = Len(s) + 1 \/ (p = Len(s) /\ s[p] = "\n")

\* \s*$ from p
BlankToEnd(s, p) == \A j \in p..Len(s) : IsSpace(s[j])

\* the least element of a non-empty set of integers
Least(S) == CHOOSE x \in S : \A y \in S : x <= y

\* replace ['"]([^'"]+)['"] with ['"]([^'"]+)['"]  anchored at i
ReplaceAt(s, i) ==
  IF ~(StartsAt(s, <<"r", "e", "p", "l", "a", "c", "e", " ">>, i) /\ i + 8 <= Len(s) /\ IsQuote(s[i + 8]))
  THEN NoMatch
  ELSE LET a == i + 9
           e == RunEnd(s, a)
       IN IF ~(e > a /\ e <= Len(s) /\ StartsAt(s, <<" ", "w", "i", "t", "h", " ">>, e + 1)
               /\ e + 7 <= Len(s) /\ IsQuote(s[e + 7]))
          THEN NoMatch
          ELSE LET b == e + 8
                   f == RunEnd(s, b)
               IN IF f > b /\ f <= Len(s)
                  THEN Match(s, a, e - 1, b, f - 1, f)
                  ELSE NoMatch

\* line 93
replace_match(s) ==
  LET starts == {i \in 1..Len(s) : ReplaceAt(s, i).matched}
  IN IF starts = {} THEN NoMatch ELSE ReplaceAt(s, Least(starts))

\* change ['"]?([^'"]+?)['"]? to ['"]?([^'"]+?)['"]?$  anchored at i, with the
\* first lazy group n1 characters long
ChangeTail(s, a, n1) ==
  LET p == SkipQuote(s, a + n1)
      b == SkipQuote(s, p + 4)
      lens == {n2 \in 1..(Len(s) - b + 1) :
                 /\ \A j \in b..(b + n2 - 1) : ~IsQuote(s[j])
                 /\ AtEnd(s, SkipQuote(s, b + n2))}
      n2 == Least(lens)
  IN IF StartsAt(s, <<" ", "t", "o", " ">>, p) /\ lens # {}
     THEN Match(s, a, a + n1 - 1, b, b + n2 - 1, SkipQuote(s, b + n2) - 1)
     ELSE NoMatch

ChangeAt(s, i) ==
  IF ~StartsAt(s, <<"c", "h", "a", "n", "g", "e", " ">>, i) THEN NoMatch
  ELSE LET a == SkipQuote(s, i + 7)
           lens == {n1 \in 1..(Len(s) - a + 1) :
                      /\ \A j \in a..(a + n1 - 1) : ~IsQuote(s[j])
                      /\ ChangeTail(s, a, n1).matched}
       IN IF lens = {} THEN NoMatch ELSE ChangeTail(s, a, Least(lens))

\* line 107
change_match(s) ==
  LET starts == {i \in 1..Len(s) : ChangeAt(s, i).matched}
  IN IF starts = {} THEN NoMatch ELSE ChangeAt(s, Least(starts))

\* change (?:the )?title to ['"]([^'"]+)['"]  anchored at i
TitleAt(s, i) ==
  IF ~StartsAt(s, <<"c", "h", "a", "n", "g", "e", " ">>, i) THEN NoMatch
  ELSE LET p == SkipThe(s, i + 7)
           a == p + 10
           e == RunEnd(s, a)
       IN IF /\ StartsAt(s, <<"t", "i", "t", "l", "e", " ", "t", "o", " ">>, p)
             /\ p + 9 <= Len(s) /\ IsQuote(s[p + 9])
             /\ e > a /\ e <= Len(s)
          THEN Match(s, a, e - 1, 1, 0, e)
          ELSE NoMatch

\* line 118
title_match(s) ==
  LET starts == {i \in 1..Len(s) : TitleAt(s, i).matched}
  IN IF starts = {} THEN NoMatch ELSE TitleAt(s, Least(starts))

\* update (?:the )?date to ['"]?([^'"]+?)['"]?\s*$  anchored at i
DateAt(s, i) ==
  IF ~StartsAt(s, <<"u", "p", "d", "a", "t", "e", " ">>, i) THEN NoMatch
  ELSE LET p == SkipThe(s, i + 7)
           a == SkipQuote(s, p + 8)
           lens == {n \in 1..(Len(s) - a + 1) :
                      /\ \A j \in a..(a + n - 1) : ~IsQuote(s[j])
                      /\ BlankToEnd(s, SkipQuote(s, a + n))}
       IN IF StartsAt(s, <<"d", "a", "t", "e", " ", "t", "o", " ">>, p) /\ lens # {}
          THEN Match(s, a, a + Least(lens) - 1, 1, 0, Len(s))
          ELSE NoMatch

\* line 129
date_match(s) ==
  LET starts == {i \in 1..Len(s) : DateAt(s, i).matched}
  IN IF starts = {} THEN NoMatch ELSE DateAt(s, Least(starts))

(***************************************************************************)
(* Pages and the PyMuPDF primitives.  A page is the list of its blocks, as *)
(* page.get_text("blocks") returns them: block[6] is the type (0 = text),  *)
(* block[4] the text.                                                      *)
(***************************************************************************)
Rep(c, n) == [i \in 1..n |-> c]

Block(t, x) == [type |-> t, text |-> x]

\* the page with index i of the documents the runs edit: page 0 has a few
\* words, page 1 is the busiest page, every later page is empty
PageOf(i) ==
  IF i = 0
  THEN <<Block(0, <<"D", "r", "a", "f", "t", " ", "a">>), Block(1, << >>), Block(0, <<"a", " ", "b", " ", "a">>)>>
  ELSE IF i = 1
  THEN [j \in 1..MaxBlocks |->
          IF j % 5 = 3 THEN Block(1, << >>)
          ELSE IF j = 2 THEN Block(0, Rep("x", MaxTextLen))
          ELSE Block(0, <<"z", "z">>)]
  ELSE << >>

MakeDoc(n) == [i \in 1..n |-> PageOf(i - 1)]

Docs == {MakeDoc(n) : n \in 1..MaxPages}

\* the starts of the occurrences of w in t from p on, leftmost first and
\* not overlapping
RECURSIVE Occ(_, _, _)
Occ(t, w, p) ==
  LET found == {i \in p..(Len(t) - Len(w) + 1) : StartsAt(t, w, i)}
  IN IF w = << >> \/ found = {} THEN {}
     ELSE {Least(found)} \cup Occ(t, w, Least(found) + Len(w))

\* page.search_for(needle): one hit per occurrence in a text block, upper
\* and lower case not distinguished
search_for(pg, needle) ==
  UNION {{[block |-> j, from |-> p, to |-> p + Len(needle) - 1] :
            p \in Occ(lower(pg[j].text), lower(needle), 1)} :
         j \in {j \in 1..Len(pg) : pg[j].type = TextBlockType}}

\* t from p on, with every marked span replaced by new
RECURSIVE Rewrite(_, _, _, _)
Rewrite(t, spans, new, p) ==
  LET ahead == {h.from : h \in {h \in spans : h.from >= p}}
      h == CHOOSE h \in spans : h.from = Least(ahead)
  IN IF ahead = {} THEN SubSeq(t, p, Len(t))
     ELSE SubSeq(t, p, h.from - 1) \o new \o Rewrite(t, spans, new, h.to + 1)

\* page.add_redact_annot(instance) for every hit, then
\* page.apply_redactions(text=TEXT_REPLACE, replacement=new)
apply_redactions(pg, annots, new) ==
  [j \in 1..Len(pg) |->
     [pg[j] EXCEPT !.text =
        Rewrite(pg[j].text, {h \in annots : h.block = j}, new, 1)]]

\* the elements of a finite set of integers in ascending order
RECURSIVE Ascending(_)
Ascending(S) ==
  IF S = {} THEN << >> ELSE <<Least(S)>> \o Ascending(S \ {Least(S)})

(***************************************************************************)
(* The interpretation of the instruction (lines 90-149): which branch is   *)
(* taken and which old_text / new_text it binds.                           *)
(***************************************************************************)
Edit(kd, old, new) == [kind |-> kd, old_text |-> old, new_text |-> new]

\* line 90
gate_replace(il) == Contains(il, <<"r", "e", "p", "l", "a", "c", "e">>) /\ Contains(il, <<"w", "i", "t", "h">>)
\* gate_change with `or` for `and`
gate_change_or(il) == Contains(il, <<"c", "h", "a", "n", "g", "e">>) \/ Contains(il, <<"t", "o">>)

\* line 104
gate_change(il) == Contains(il, <<"c", "h", "a", "n", "g", "e">>) /\ Contains(il, <<"t", "o">>)
\* line 127
gate_update(il) == Contains(il, <<"u", "p", "d", "a", "t", "e">>) /\ Contains(il, <<"d", "a", "t", "e">>)

\* lines 93-96
replace_branch(il) ==
  LET m == replace_match(il)
  IN IF m.matched THEN Edit("replace", m.g1, m.g2)
     ELSE Edit("none", << >>, << >>)

\* lines 107-125
change_branch(il) ==
  LET m == change_match(il)
      t == title_match(il)
  IN IF m.matched THEN Edit("change", strip(m.g1), strip(m.g2))
     ELSE IF t.matched THEN Edit("title", <<"T", "i", "t", "l", "e">>, t.g1)
     ELSE Edit("none", << >>, << >>)

\* lines 129-132
update_branch(il) ==
  LET m == date_match(il)
  IN IF m.matched THEN Edit("update-date", << >>, m.g1)
     ELSE Edit("none", << >>, << >>)

\* interpret with the change rule tried before the replace rule
interpret_change_first(il) ==
  IF gate_change(il) THEN change_branch(il)
  ELSE IF gate_replace(il) THEN replace_branch(il)
  ELSE IF gate_update(il) THEN update_branch(il)
  ELSE Edit("unrecognized", << >>, << >>)

\* the if / elif / elif / else of lines 90, 104, 127, 135
interpret(il) ==
  IF gate_replace(il) THEN replace_branch(il)
  ELSE IF gate_change(il) THEN change_branch(il)
  ELSE IF gate_update(il) THEN update_branch(il)
  ELSE Edit("unrecognized", << >>, << >>)

(***************************************************************************)
(* What the run prints.                                                    *)
(***************************************************************************)
Line(m, pn, a, b, n) == [msg |-> m, page_num |-> pn, a |-> a, b |-> b, n |-> n]

\* listing with the slice one block too long
listing_one_more(pn, blocks) ==
  LET first == Prefix(blocks, ListedBlocks + 1)
      shown == Ascending({i \in 1..Len(first) : first[i].type = TextBlockType})
  IN [x \in 1..Len(shown) |->
        Line("block", pn, Prefix(first[shown[x]].text, ListedChars), << >>,
             shown[x] - 1)]

\* lines 147-149: the text blocks among the first ten, each cut to 100
\* characters
listing(pn, blocks) ==
  LET first == Prefix(blocks, ListedBlocks)
      shown == Ascending({i \in 1..Len(first) : first[i].type = TextBlockType})
  IN [x \in 1..Len(shown) |->
        Line("block", pn, Prefix(first[shown[x]].text, ListedChars), << >>,
             shown[x] - 1)]

\* lines 137-149
unrecognized_lines(pn, instr, blocks) ==
  <<Line("complex", pn, instr, << >>, 0),
    Line("using-llm", pn, << >>, << >>, 0),
    Line("found-blocks", pn, << >>, << >>, Len(blocks)),
    Line("available", pn, << >>, << >>, 0)>> \o listing(pn, blocks)

\* lines 102, 115, 125, 132
edit_lines(pn, e) ==
  IF e.kind = "replace" THEN <<Line("replaced", pn, e.old_text, e.new_text, 0)>>
  ELSE IF e.kind = "change" THEN <<Line("changed", pn, e.old_text, e.new_text, 0)>>
  ELSE IF e.kind = "title" THEN <<Line("title-requested", pn, e.new_text, << >>, 0)>>
  ELSE IF e.kind = "update-date"
  THEN <<Line("date-requested", pn, e.new_text, << >>, 0)>>
  ELSE << >>

(***************************************************************************)
(* The inputs: instructions, page specifiers, documents, output paths.     *)
(***************************************************************************)
Quotes(a, b, c, d) == <<a, b, c, d>>
SQ == <<"'">>
DQ == <<"\"">>
NQ == << >>

Build(verb, q, A, link, B, post) ==
  verb \o q[1] \o A \o q[2] \o link \o q[3] \o B \o q[4] \o post

OldTexts == {<<"a">>, <<"D", "r", "a", "f", "t">>, <<"a", " ", "b">>, <<" ">>, <<"t", "h", "e", " ", "t", "i", "t", "l", "e">>, <<"Z", "q">>}
NewTexts == {<<"b">>, <<"F", "i", "n", "a", "l">>, <<"b", " ", " ", "c">>, <<" ">>}

ReplaceInstructions ==
  {Build(v, q, A, l, B, p) :
     v \in {<<"r", "e", "p", "l", "a", "c", "e", " ">>, <<"R", "E", "P", "L", "A", "C", "E", " ">>},
     q \in {Quotes(SQ, SQ, SQ, SQ), Quotes(DQ, DQ, DQ, DQ), Quotes(SQ, DQ, DQ, SQ)},
     A \in OldTexts, l \in {<<" ", "w", "i", "t", "h", " ">>, <<" ", "W", "i", "t", "h", " ">>}, B \in NewTexts,
     p \in {<< >>, <<" ", "n", "o", "w">>}}

ChangeInstructions ==
  {Build(v, q, A, l, B, p) :
     v \in {<<"c", "h", "a", "n", "g", "e", " ">>, <<"C", "h", "a", "n", "g", "e", " ">>},
     q \in {Quotes(SQ, SQ, SQ, SQ), Quotes(DQ, DQ, DQ, DQ), Quotes(NQ, NQ, NQ, NQ),
            Quotes(NQ, NQ, SQ, SQ), Quotes(SQ, NQ, NQ, SQ)},
     A \in OldTexts, l \in {<<" ", "t", "o", " ">>}, B \in NewTexts,
     p \in {<< >>, <<"\n">>, <<" ", "n", "o", "w">>}}

UpdateInstructions ==
  {Build(v, q, A, l, B, p) :
     v \in {<<"u", "p", "d", "a", "t", "e", " ">>, <<"U", "p", "d", "a", "t", "e", " ">>},
     q \in {Quotes(NQ, NQ, SQ, SQ), Quotes(NQ, NQ, DQ, DQ), Quotes(NQ, NQ, NQ, NQ)},
     A \in {<<"t", "h", "e", " ", "d", "a", "t", "e">>, <<"d", "a", "t", "e">>, <<"t", "h", "e", " ", "d", "a", "y">>}, l \in {<<" ", "t", "o", " ">>}, B \in NewTexts,
     p \in {<< >>, <<" ", " ">>, <<" ", "n", "o", "w">>}}

\* instructions whose keywords belong to more than one rule, or to none
MixedInstructions ==
  {<< >>,
   <<"p", "l", "e", "a", "s", "e", " ", "m", "a", "k", "e", " ", "i", "t", " ", "n", "i", "c", "e", "r">>,
   <<"g", "o", " ", "t", "o", " ", "p", "a", "g", "e", " ", "t", "w", "o">>,
   <<"r", "e", "p", "l", "a", "c", "e", " ", "a", " ", "w", "i", "t", "h", " ", "b">>,
   <<"r", "e", "p", "l", "a", "c", "e", " ", "'", "a", " ", "w", "i", "t", "h", " ", "'", "b", "'">>,
   <<"r", "e", "p", "l", "a", "c", "e", " ", "'", "a", "'", " ", "t", "o", " ", "'", "b", "'">>,
   <<"c", "h", "a", "n", "g", "e", " ", "'", "a", "'", " ", "w", "i", "t", "h", " ", "'", "b", "'">>,
   <<"r", "e", "p", "l", "a", "c", "e", " ", "w", "i", "t", "h", " ", "c", "h", "a", "n", "g", "e", " ", "'", "a", "'", " ", "t", "o", " ", "'", "b", "'">>,
   <<"r", "e", "p", "l", "a", "c", "e", " ", "w", "i", "t", "h", " ", "u", "p", "d", "a", "t", "e", " ", "t", "h", "e", " ", "d", "a", "t", "e", " ", "t", "o", " ", "'", "b", "'">>,
   <<"c", "h", "a", "n", "g", "e", " ", "t", "o", " ", "u", "p", "d", "a", "t", "e", " ", "t", "h", "e", " ", "d", "a", "t", "e", " ", "t", "o", " ", "'", "b", "'", " ", "n", "o", "w">>,
   <<"c", "h", "a", "n", "g", "e", " ", "'", "r", "e", "p", "l", "a", "c", "e", "'", " ", "t", "o", " ", "'", "w", "i", "t", "h", "'">>,
   <<"r", "e", "p", "l", "a", "c", "e", " ", "'", "c", "h", "a", "n", "g", "e", "'", " ", "w", "i", "t", "h", " ", "'", "t", "o", "'">>,
   <<"r", "e", "p", "l", "a", "c", "e", " ", "'", "c", "h", "a", "n", "g", "e", " ", "t", "o", "'", " ", "w", "i", "t", "h", " ", "'", "u", "p", "d", "a", "t", "e", " ", "d", "a", "t", "e", "'">>,
   <<"r", "e", "p", "l", "a", "c", "e", " ", "'", "u", "p", "d", "a", "t", "e", "'", " ", "w", "i", "t", "h", " ", "'", "d", "a", "t", "e", "'">>,
   <<"c", "h", "a", "n", "g", "e", " ", "'", "u", "p", "d", "a", "t", "e", "'", " ", "t", "o", " ", "'", "d", "a", "t", "e", "'">>,
   <<"u", "p", "d", "a", "t", "e", " ", "t", "h", "e", " ", "d", "a", "t", "e", " ", "t", "o", " ", "'", "c", "h", "a", "n", "g", "e", " ", "t", "o", "'">>,
   <<"u", "p", "d", "a", "t", "e", " ", "t", "h", "e", " ", "d", "a", "t", "e", " ", "t", "o", " ", "r", "e", "p", "l", "a", "c", "e", " ", "w", "i", "t", "h">>,
   <<"p", "l", "e", "a", "s", "e", " ", "r", "e", "p", "l", "a", "c", "e", " ", "'", "a", "'", " ", "w", "i", "t", "h", " ", "'", "b", "'", " ", "a", "n", "d", " ", "c", "h", "a", "n", "g", "e", " ", "'", "a", "'", " ", "t", "o", " ", "'", "b", "'">>,
   <<"r", "e", "p", "l", "a", "c", "e", " ", "'", "a", "'", " ", "w", "i", "t", "h", " ", "'", "b", "'", ",", " ", "r", "e", "p", "l", "a", "c", "e", " ", "'", "D", "r", "a", "f", "t", "'", " ", "w", "i", "t", "h", " ", "'", "F", "i", "n", "a", "l", "'">>,
   <<"c", "h", "a", "n", "g", "e", " ", "t", "h", "e", " ", "t", "i", "t", "l", "e", " ", "t", "o", " ", "'", "F", "i", "n", "a", "l", "'", " ", "p", "l", "e", "a", "s", "e">>,
   <<"c", "h", "a", "n", "g", "e", " ", "a", " ", "t", "o", " ", "b", " ", "t", "o", " ", "c">>,
   <<"u", "p", "d", "a", "t", "e", " ", "t", "h", "e", " ", "d", "a", "t", "e", "s">>}

Instructions ==
  ReplaceInstructions \cup ChangeInstructions \cup UpdateInstructions
    \cup MixedInstructions

PageSpecs ==
  {<<"a", "l", "l">>, <<"A", "L", "L">>, <<"A", "l", "l">>, <<"0">>, <<"1">>, <<"2">>, <<"3">>, <<" ", "1", " ">>, <<"+", "0">>, <<"-", "1">>,
   <<"1", ".", "5">>, <<"x">>, << >>, <<"a", "l", "l", "p", "a", "g", "e", "s">>}

pdf_path == "in.pdf"

\* args.output: absent, or the path given with -o
OutputPaths == {"None", "out.pdf"}

Paths == {"in.pdf", "out.pdf"}

\* a path of the file system: absent, or a PDF with these pages
File(d) == [exists |-> TRUE, pages |-> d]
NoFile == [exists |-> FALSE, pages |-> << >>]

\* a few instructions of every kind, run against every environment
CoreInstructions ==
  {<< >>,
   <<"p", "l", "e", "a", "s", "e", " ", "m", "a", "k", "e", " ", "i", "t", " ", "n", "i", "c", "e", "r">>,
   <<"r", "e", "p", "l", "a", "c", "e", " ", "'", "D", "r", "a", "f", "t", "'", " ", "w", "i", "t", "h", " ", "'", "F", "i", "n", "a", "l", "'">>,
   <<"r", "e", "p", "l", "a", "c", "e", " ", "a", " ", "w", "i", "t", "h", " ", "b">>,
   <<"c", "h", "a", "n", "g", "e", " ", "'", "D", "r", "a", "f", "t", "'", " ", "t", "o", " ", "'", "F", "i", "n", "a", "l", "'">>,
   <<"c", "h", "a", "n", "g", "e", " ", "'", " ", "'", " ", "t", "o", " ", "'", "b", "'">>,
   <<"c", "h", "a", "n", "g", "e", " ", "t", "h", "e", " ", "t", "i", "t", "l", "e", " ", "t", "o", " ", "'", "F", "i", "n", "a", "l", "'", " ", "p", "l", "e", "a", "s", "e">>,
   <<"u", "p", "d", "a", "t", "e", " ", "t", "h", "e", " ", "d", "a", "t", "e", " ", "t", "o", " ", "'", "M", "a", "r", "c", "h", " ", "2", "0", "2", "4", "'">>}

(***************************************************************************)
(* The run of `nano-pdf.py edit <pdf> <page> <instruction> [-o output]`.   *)
(***************************************************************************)
\* a few instructions against every environment, and every instruction
\* against two environments
Environments ==
  {[d |-> File(MakeDoc(MaxPages)), p |-> <<"a", "l", "l">>, o |-> "None"],
   [d |-> File(MakeDoc(1)), p |-> <<"0">>, o |-> "out.pdf"]}

\* Python's None among strings
None == <<"None">>

\* `not x` for an optional string
Falsy(x) == x = None \/ x = << >>

\* no operation dispatched yet, no result bound yet
NoOp == [name |-> "none", call_id |-> None, by |-> "none"]
NoResult == [unbound |-> TRUE]

\* no voice_call process
VoiceIdle ==
  /\ vpc = "idle"
  /\ args = [none |-> TRUE]
  /\ environ = [none |-> TRUE]
  /\ provider = "none"
  /\ calls = << >>
  /\ op = NoOp
  /\ result = NoResult
  /\ verr = << >>
  /\ selections = 0
  /\ clock = 0
  /\ exit_code = -1

Init ==
  /\ pc = "edit_pdf"
  /\ \/ /\ instruction \in CoreInstructions
        /\ \E d \in {File(x) : x \in Docs} \cup {NoFile} :
             disk = [f \in Paths |-> IF f = pdf_path THEN d ELSE NoFile]
        /\ page \in PageSpecs
        /\ output_path \in OutputPaths
     \/ /\ instruction \in Instructions
        /\ \E e \in Environments :
             /\ disk = [f \in Paths |-> IF f = pdf_path THEN e.d ELSE NoFile]
             /\ page = e.p
             /\ output_path = e.o
  /\ args_output = output_path
  /\ doc = << >>
  /\ pages_to_edit = << >>
  /\ k = 0
  /\ instruction_lower = << >>
  /\ stdout = << >>
  /\ stderr = << >>
  /\ exit_status = -1
  /\ ops = << >>
  /\ edits = << >>
  /\ VoiceIdle

\* sys.exit(1) after an error line on stderr
Exit1(m) ==
  /\ stderr' = Append(stderr, m)
  /\ exit_status' = 1
  /\ pc' = "exit"
  /\ UNCHANGED <<voice_vars, args_output, page, instruction, output_path, disk, doc, pages_to_edit, k,
                 instruction_lower, stdout, ops, edits>>

\* pages_for with the pages of "all" in descending order
pages_for_descending(spec, total_pages) ==
  IF lower(spec) = <<"a", "l", "l">> THEN [i \in 1..total_pages |-> total_pages - i]
  ELSE <<int(spec)>>

\* edit_pdf, lines 40-48: pages_to_edit for a page specifier that passed the
\* checks
pages_for(spec, total_pages) ==
  IF lower(spec) = <<"a", "l", "l">> THEN [i \in 1..total_pages |-> i - 1]
  ELSE <<int(spec)>>

\* page_in_range with the upper comparison off by one
page_in_range_inclusive(page_num, total_pages) ==
  ~(page_num < 0 \/ page_num > total_pages)

\* line 45
page_in_range(page_num, total_pages) == ~(page_num < 0 \/ page_num >= total_pages)

\* edit_pdf (lines 27-66) up to the call of edit_with_pymupdf
EditPdf ==
  /\ pc = "edit_pdf"
  /\ LET total_pages == Len(disk[pdf_path].pages)
     IN IF ~disk[pdf_path].exists THEN Exit1("file-not-found")
        ELSE IF lower(page) = <<"a", "l", "l">>
             \/ (IntParses(page) /\ page_in_range(int(page), total_pages))
        THEN /\ pages_to_edit' = pages_for(page, total_pages)
             /\ pc' = "edit_with_pymupdf"
             /\ UNCHANGED <<voice_vars, args_output, page, instruction, output_path, disk, doc, k,
                            instruction_lower, stdout, stderr, exit_status,
                            ops, edits>>
        ELSE IF IntParses(page) THEN Exit1("page-out-of-range")
        ELSE Exit1("invalid-page-number")

\* Open with the output path always the input path
Open_ignores_output ==
  /\ pc = "edit_with_pymupdf"
  /\ output_path' = pdf_path
  /\ doc' = disk[pdf_path].pages
  /\ instruction_lower' = lower(instruction)
  /\ k' = 1
  /\ pc' = "loop"
  /\ UNCHANGED <<voice_vars, args_output, page, instruction, disk, pages_to_edit, stdout, stderr,
                 exit_status, ops, edits>>

\* edit_with_pymupdf, lines 72-78: the default output path, fitz.open, and
\* the lowered instruction
Open ==
  /\ pc = "edit_with_pymupdf"
  /\ output_path' = IF output_path = "None" THEN pdf_path ELSE output_path
  /\ doc' = disk[pdf_path].pages
  /\ instruction_lower' = lower(instruction)
  /\ k' = 1
  /\ pc' = "loop"
  /\ UNCHANGED <<voice_vars, args_output, page, instruction, disk, pages_to_edit, stdout, stderr,
                 exit_status, ops, edits>>

Op(name, pn, n) == [op |-> name, page_num |-> pn, n |-> n]

\* edit_with_pymupdf, lines 80-149: one iteration of the loop over
\* pages_to_edit
ProcessPage ==
  /\ pc = "loop"
  /\ k <= Len(pages_to_edit)
  /\ LET page_num == pages_to_edit[k]
     IN IF page_num >= Len(doc)
        THEN UNCHANGED <<doc, stdout, ops, edits>>
        ELSE LET pg == doc[page_num + 1]
                 e == interpret(instruction_lower)
                 hits == IF e.kind \in {"replace", "change", "title"}
                         THEN search_for(pg, e.old_text) ELSE {}
             IN /\ doc' = IF e.kind \in {"replace", "change"}
                          THEN [doc EXCEPT ![page_num + 1] =
                                  apply_redactions(pg, hits, e.new_text)]
                          ELSE doc
                /\ stdout' = stdout \o
                     (IF e.kind = "unrecognized"
                      THEN unrecognized_lines(page_num, instruction, pg)
                      ELSE edit_lines(page_num, e))
                /\ ops' = ops \o
                     (IF e.kind \in {"replace", "change"}
                      THEN <<Op("search_for", page_num, Cardinality(hits)),
                             Op("add_redact_annot", page_num, Cardinality(hits)),
                             Op("apply_redactions", page_num, Cardinality(hits))>>
                      ELSE IF e.kind = "title"
                      THEN <<Op("search_for", page_num, Cardinality(hits))>>
                      ELSE IF e.kind = "unrecognized"
                      THEN <<Op("get_text_blocks", page_num, Len(pg))>>
                      ELSE << >>)
                /\ edits' = Append(edits,
                     [page_num |-> page_num, kind |-> e.kind,
                      old_text |-> e.old_text, new_text |-> e.new_text,
                      hits |-> Cardinality(hits)])
  /\ k' = k + 1
  /\ UNCHANGED <<voice_vars, pc, args_output, page, instruction, output_path, disk, pages_to_edit,
                 instruction_lower, stderr, exit_status>>

\* Save without waiting for the end of the loop
Save_in_loop ==
  /\ pc = "loop"
  /\ disk' = [disk EXCEPT ![output_path] = File(doc)]
  /\ stdout' = Append(stdout, Line("saved", -1, << >>, << >>, 0))
  /\ exit_status' = 0
  /\ pc' = "done"
  /\ UNCHANGED <<voice_vars, args_output, page, instruction, output_path, doc, pages_to_edit, k,
                 instruction_lower, stderr, ops, edits>>

\* edit_with_pymupdf, lines 151-156: doc.save(output_path)
Save ==
  /\ pc = "loop"
  /\ k > Len(pages_to_edit)
  /\ disk' = [disk EXCEPT ![output_path] = File(doc)]
  /\ stdout' = Append(stdout, Line("saved", -1, << >>, << >>, 0))
  /\ exit_status' = 0
  /\ pc' = "done"
  /\ UNCHANGED <<voice_vars, args_output, page, instruction, output_path, doc, pages_to_edit, k,
                 instruction_lower, stderr, ops, edits>>

Next == EditPdf \/ Open \/ ProcessPage \/ Save

Spec == Init /\ [][Next]_vars

TypeOK ==
  /\ pc \in {"edit_pdf", "edit_with_pymupdf", "loop", "done", "exit"}
  /\ exit_status \in {-1, 0, 1}
  /\ k \in 0..(MaxPages + 2)

(***************************************************************************)
(* Properties.  edits[i] is what the i-th processed page bound; the        *)
(* properties read it, the printed lines and the library calls.            *)
(***************************************************************************)
Gated(il, w1, w2) == Contains(il, w1) /\ Contains(il, w2)

\* the redaction calls made so far
Redactions == {i \in DOMAIN ops : ops[i].op \in {"add_redact_annot", "apply_redactions"}}

Searches == {i \in DOMAIN ops : ops[i].op = "search_for"}

\* the lines that report an edit of page pn
EditLines(pn) ==
  {i \in DOMAIN stdout :
     /\ stdout[i].page_num = pn
     /\ stdout[i].msg \in {"replaced", "changed", "title-requested", "date-requested"}}

\* a rule whose keywords are present and whose pattern does not match
GatePassedPatternFailed(il) ==
  \/ Gated(il, <<"r", "e", "p", "l", "a", "c", "e">>, <<"w", "i", "t", "h">>) /\ ~replace_match(il).matched
  \/ /\ Gated(il, <<"c", "h", "a", "n", "g", "e">>, <<"t", "o">>)
     /\ ~change_match(il).matched /\ ~title_match(il).matched
  \/ Gated(il, <<"u", "p", "d", "a", "t", "e">>, <<"d", "a", "t", "e">>) /\ ~date_match(il).matched

\* the outcome when every failed extraction falls through to the next rule
fall_through(il) ==
  IF Gated(il, <<"r", "e", "p", "l", "a", "c", "e">>, <<"w", "i", "t", "h">>) /\ replace_match(il).matched THEN "replace"
  ELSE IF Gated(il, <<"c", "h", "a", "n", "g", "e">>, <<"t", "o">>) /\ change_match(il).matched THEN "change"
  ELSE IF Gated(il, <<"c", "h", "a", "n", "g", "e">>, <<"t", "o">>) /\ title_match(il).matched THEN "title"
  ELSE IF Gated(il, <<"u", "p", "d", "a", "t", "e">>, <<"d", "a", "t", "e">>) /\ date_match(il).matched
  THEN "update-date"
  ELSE "unrecognized"

\* C1: an instruction that passes a rule's keyword gate and fails its
\* pattern is handled by the next rule that matches, else as unrecognized,
\* and the run does not end in an error
C1_FallsThrough ==
  \A i \in DOMAIN edits :
    GatePassedPatternFailed(instruction_lower)
      => /\ edits[i].kind = fall_through(instruction_lower)
         /\ exit_status # 1

\* the characters of the instruction as typed under a group of a match on
\* the lowered instruction
typed1(m) == SubSeq(instruction, m.a1, m.a1 + Len(m.g1) - 1)
typed2(m) == SubSeq(instruction, m.a2, m.a2 + Len(m.g2) - 1)

\* C2: the keywords match in any case, and old_text / new_text are the
\* characters between the quotes of the instruction as typed, case kept
C2_CasePreserved ==
  \A i \in DOMAIN edits :
    /\ edits[i].kind = "replace"
         => LET m == replace_match(instruction_lower)
            IN edits[i].old_text = typed1(m) /\ edits[i].new_text = typed2(m)
    /\ edits[i].kind = "change"
         => LET m == change_match(instruction_lower)
            IN /\ edits[i].old_text = strip(typed1(m))
               /\ edits[i].new_text = strip(typed2(m))

\* C3: the instruction replace 'A' with 'B' yields kind replace with
\* old_text = A and new_text = B, verbatim
C3_ReplaceVerbatim ==
  \A i \in DOMAIN edits :
    LET m == ReplaceAt(instruction, 1)
    IN (m.matched /\ m.last = Len(instruction))
         => /\ edits[i].kind = "replace"
            /\ edits[i].old_text = m.g1
            /\ edits[i].new_text = m.g2

C5_NonEmptyTexts ==
  \A i \in DOMAIN edits :
    edits[i].kind \in {"replace", "change"}
      => edits[i].old_text # << >> /\ edits[i].new_text # << >>

\* C6: the instruction change 'A' to 'B', quotes optional, yields kind
\* change with old_text = A and new_text = B, each trimmed
C6_ChangeTrimmed ==
  \A i \in DOMAIN edits :
    LET m == ChangeAt(instruction, 1)
    IN m.matched
         => /\ edits[i].kind = "change"
            /\ edits[i].old_text = strip(m.g1)
            /\ edits[i].new_text = strip(m.g2)

\* no keyword pair of rules 1-3 is in the instruction
NoRuleKeywords(il) ==
  /\ ~Gated(il, <<"r", "e", "p", "l", "a", "c", "e">>, <<"w", "i", "t", "h">>)
  /\ ~Gated(il, <<"c", "h", "a", "n", "g", "e">>, <<"t", "o">>)
  /\ ~Gated(il, <<"u", "p", "d", "a", "t", "e">>, <<"d", "a", "t", "e">>)

C8_ListsFirstTen ==
  \A i \in DOMAIN stdout :
    stdout[i].msg = "block"
      => LET l == stdout[i]
             blocks == PageOf(l.page_num)
         IN /\ l.n \in 0..9
            /\ l.n < Len(blocks)
            /\ blocks[l.n + 1].type = 0
            /\ Len(l.a) <= 100
            /\ l.a = SubSeq(blocks[l.n + 1].text, 1, Len(l.a))
            /\ Len(l.a) < 100 => l.a = blocks[l.n + 1].text
            /\ \A j \in DOMAIN stdout :
                 (j > i /\ stdout[j].msg = "block"
                    /\ stdout[j].page_num = l.page_num) => stdout[j].n > l.n

\* a page with more than 10 blocks was listed up to its tenth block, one of
\* them cut to 100 characters
C8_Witness ==
  \E i, j \in DOMAIN stdout :
    /\ stdout[i].msg = "block" /\ stdout[j].msg = "block"
    /\ stdout[i].page_num = stdout[j].page_num
    /\ Len(PageOf(stdout[i].page_num)) > 10
    /\ stdout[i].n = 9
    /\ Len(stdout[j].a) = 100
    /\ Len(PageOf(stdout[j].page_num)[stdout[j].n + 1].text) > 100

\* C9: when old_text of a replace or change edit occurs nowhere on a page,
\* the page is unchanged, the run goes on, and the line printed for the
\* page does not report the replacement as done
C9_ZeroHitsReported ==
  \A i \in DOMAIN edits :
    (/\ edits[i].kind \in {"replace", "change"}
     /\ edits[i].old_text # << >>
     /\ edits[i].hits = 0)
      => /\ doc[edits[i].page_num + 1] = PageOf(edits[i].page_num)
         /\ exit_status # 1
         /\ \A j \in EditLines(edits[i].page_num) :
              stdout[j].msg \notin {"replaced", "changed"}

\* the page specifier is neither "all" in any case nor an integer p with
\* 0 <= p < the page count
BadPageSpec ==
  /\ lower(page) # <<"a", "l", "l">>
  /\ ~(IntParses(page) /\ 0 <= int(page)
         /\ int(page) < Len(disk[pdf_path].pages))

\* C10: with such a specifier edit_pdf ends the run with an error line and
\* exit status 1, no page searched or redacted and no file written
C10_BadPageStops ==
  (disk[pdf_path].exists /\ BadPageSpec /\ pc # "edit_pdf")
    => /\ pc = "exit"
       /\ exit_status = 1
       /\ Len(stderr) = 1
       /\ ops = << >> /\ edits = << >> /\ doc = << >>
       /\ ~disk["out.pdf"].exists
       /\ disk[pdf_path].pages \in Docs
       /\ \A i \in DOMAIN stdout : stdout[i].msg # "saved"

\* a run on a page index past the last page has ended
C10_Witness ==
  /\ pc = "exit"
  /\ disk[pdf_path].exists
  /\ IntParses(page)
  /\ int(page) >= Len(disk[pdf_path].pages)
  /\ stderr = <<"page-out-of-range">>

(***************************************************************************)
(* voice_call.py.  A dictionary is a record whose domain is its key set;   *)
(* an optional string is None or a sequence of characters.                 *)
(***************************************************************************)
Truthy(x) == ~Falsy(x)

\* os.environ.get('VOICE_FROM_NUMBER', '+15555550000') with the variable unset
from_number == <<"+", "1", "5", "5", "5", "5", "5", "5", "0", "0", "0", "0">>

Digit(d) == <<"0", "1", "2", "3", "4", "5", "6", "7", "8", "9">>[d + 1]

\* datetime.now().strftime('%Y%m%d%H%M%S') at second t of one minute
strftime(t) == <<"2", "0", "2", "6", "0", "1", "0", "1", "0", "0", "0", "0">> \o <<Digit(t \div 10), Digit(t % 10)>>

\* f"MOCK_{...}"
MockId(t) == <<"M", "O", "C", "K", "_">> \o strftime(t)

\* result.get('success')
Success(r) == "success" \in DOMAIN r /\ r.success

\* {'error': f'Call {call_id} not found'}
NotFound(call_id) == [error |-> <<"not-found", call_id>>]

\* MockProvider.initiate_call (lines 42-62): the call is stored under its
\* id, then the prints; ssml[:100] raises TypeError when message is falsy
\* and ssml is None
initiate_call(self_calls, now, to_number, message, ssml, webhook_url) ==
  LET call_id == MockId(now)
      call_data == [id |-> call_id,
                    to |-> to_number,
                    from |-> from_number,
                    message |-> IF Truthy(message) THEN message ELSE ssml,
                    type |-> IF Truthy(ssml) THEN "ssml" ELSE "text",
                    status |-> "queued",
                    created_at |-> now,
                    webhook_url |-> webhook_url]
      raises == Falsy(message) /\ ssml = None
  IN [calls |-> (call_id :> call_data) @@ self_calls,
      raised |-> raises,
      result |-> IF raises THEN [raised |-> "TypeError"]
                 ELSE [success |-> TRUE, call_id |-> call_id,
                       status |-> "queued"]]

\* get_status with a queued call going straight to completed
get_status_skips(self_calls, call_id) ==
  IF call_id \notin DOMAIN self_calls
  THEN [calls |-> self_calls, raised |-> FALSE, result |-> NotFound(call_id)]
  ELSE LET call == self_calls[call_id]
           next == IF call.status \in {"queued", "in-progress"}
                   THEN [call EXCEPT !.status = "completed"]
                          @@ [duration |-> SimulatedDuration]
                   ELSE call
       IN [calls |-> [self_calls EXCEPT ![call_id] = next],
           raised |-> FALSE, result |-> next]

\* MockProvider.get_status (lines 64-82): the result is the call dictionary
\* itself
get_status(self_calls, call_id) ==
  IF call_id \notin DOMAIN self_calls
  THEN [calls |-> self_calls, raised |-> FALSE, result |-> NotFound(call_id)]
  ELSE LET call == self_calls[call_id]
           next == IF call.status = "queued"
                   THEN [call EXCEPT !.status = "in-progress"]
                   ELSE IF call.status = "in-progress"
                   THEN [call EXCEPT !.status = "completed"]
                          @@ [duration |-> SimulatedDuration]
                   ELSE call
       IN [calls |-> [self_calls EXCEPT ![call_id] = next],
           raised |-> FALSE, result |-> next]

\* MockProvider.hangup (lines 84-90)
hangup(self_calls, call_id) ==
  IF call_id \notin DOMAIN self_calls
  THEN [calls |-> self_calls, raised |-> FALSE, result |-> NotFound(call_id)]
  ELSE [calls |-> [self_calls EXCEPT ![call_id].status = "completed"],
        raised |-> FALSE,
        result |-> [success |-> TRUE, call_id |-> call_id,
                    status |-> "completed"]]

\* os.environ.get('VOICE_PROVIDER', 'mock'), kept as typed
provider_name_as_typed(env) ==
  IF env.VOICE_PROVIDER.set THEN env.VOICE_PROVIDER.value ELSE <<"m", "o", "c", "k">>

\* line 235: os.environ.get('VOICE_PROVIDER', 'mock').lower()
provider_name(env) ==
  lower(IF env.VOICE_PROVIDER.set THEN env.VOICE_PROVIDER.value ELSE <<"m", "o", "c", "k">>)

\* a provider was constructed, with what get_provider wrote to stderr
Constructed(cls, err) == [provider |-> cls, raised |-> "none", err |-> err]

\* the constructor did not return: an uncaught ValueError, or sys.exit(1)
Failed(how, err) == [provider |-> "none", raised |-> how, err |-> err]

\* get_provider (lines 233-249) with the constructors it calls (lines
\* 38-40, 96-108, 141-155)
get_provider(env) ==
  LET name == provider_name(env)
  IN IF name = <<"m", "o", "c", "k">> THEN Constructed("Mock", << >>)
     ELSE IF name = <<"t", "w", "i", "l", "i", "o">>
     THEN IF ~env.twilio_credentials
          THEN Failed("ValueError", <<"twilio-credentials-not-configured">>)
          ELSE IF ~env.twilio_package
          THEN Failed("SystemExit", <<"twilio-package-not-installed">>)
          ELSE Constructed("Twilio", << >>)
     ELSE IF name = <<"t", "e", "l", "n", "y", "x">>
     THEN IF ~env.telnyx_credentials
          THEN Failed("ValueError", <<"telnyx-credentials-not-configured">>)
          ELSE Constructed("Telnyx", << >>)
     ELSE IF name = <<"p", "l", "i", "v", "o">>
     THEN Constructed("Mock", <<"plivo-not-implemented-using-mock">>)
     ELSE Constructed("Mock", <<"unknown-provider-using-mock">>)

\* the values VOICE_PROVIDER is given
ProviderNames ==
  {<<"m", "o", "c", "k">>, <<"M", "o", "c", "k">>, <<"t", "w", "i", "l", "i", "o">>, <<"T", "W", "I", "L", "I", "O">>, <<"t", "e", "l", "n", "y", "x">>, <<"T", "e", "l", "n", "y", "x">>, <<"p", "l", "i", "v", "o">>,
   <<"P", "L", "I", "V", "O">>, <<"v", "o", "n", "a", "g", "e">>, <<" ", "t", "w", "i", "l", "i", "o">>, << >>}

Environs ==
  {[VOICE_PROVIDER |-> v, twilio_credentials |-> tc, twilio_package |-> tp,
    telnyx_credentials |-> xc] :
     v \in {[set |-> FALSE, value |-> << >>]}
             \cup {[set |-> TRUE, value |-> n] : n \in ProviderNames},
     tc \in BOOLEAN, tp \in BOOLEAN, xc \in BOOLEAN}

\* the command lines: argparse leaves an option that is not given at None
\* (the two flags at False)
Args ==
  {[to |-> t, message |-> m, ssml |-> s, webhook_url |-> None,
    call_id |-> c, status |-> st, hangup |-> h] :
     t \in {None, <<"+", "1", "5", "5", "5", "5", "5", "5", "0", "1", "2", "3">>}, m \in {None, << >>, <<"H", "e", "l", "l", "o">>},
     s \in {None, <<"<", "s", "p", "e", "a", "k", "/", ">">>}, c \in {None, << >>, <<"C", "A", "1", "2">>},
     st \in BOOLEAN, h \in BOOLEAN}

\* no nano-pdf process
PdfIdle ==
  /\ pc = "idle"
  /\ args_output = "None"
  /\ page = << >>
  /\ instruction = << >>
  /\ output_path = "None"
  /\ disk = [p \in Paths |-> NoFile]
  /\ doc = << >>
  /\ pages_to_edit = << >>
  /\ k = 0
  /\ instruction_lower = << >>
  /\ stdout = << >>
  /\ stderr = << >>
  /\ exit_status = -1
  /\ ops = << >>
  /\ edits = << >>

\* main after parser.parse_args() (lines 252-262)
VoiceInit ==
  /\ PdfIdle
  /\ vpc = "validate"
  /\ args \in Args
  /\ environ \in Environs
  /\ provider = "none"
  /\ calls = << >>
  /\ op = NoOp
  /\ result = NoResult
  /\ verr = << >>
  /\ selections = 0
  /\ clock \in 1..MaxClock
  /\ exit_code = -1

\* sys.exit(code), or an uncaught exception (exit code 1, traceback on
\* stderr)
VoiceExit(code, err) ==
  /\ verr' = verr \o err
  /\ exit_code' = code
  /\ vpc' = "done"

\* main, lines 264-275
Validate ==
  /\ vpc = "validate"
  /\ IF args.status \/ args.hangup
     THEN IF Falsy(args.call_id)
          THEN VoiceExit(1, <<"call-id-required">>)
          ELSE vpc' = "get_provider" /\ UNCHANGED <<verr, exit_code>>
     ELSE IF Truthy(args.to)
     THEN IF Falsy(args.message) /\ Falsy(args.ssml)
          THEN VoiceExit(1, <<"message-or-ssml-required">>)
          ELSE vpc' = "get_provider" /\ UNCHANGED <<verr, exit_code>>
     ELSE VoiceExit(0, << >>)
  /\ UNCHANGED <<pdf_vars, args, environ, provider, calls, op, result,
                 selections, clock>>

\* main, line 277: provider = get_provider()
GetProvider ==
  /\ vpc = "get_provider"
  /\ selections' = selections + 1
  /\ LET g == get_provider(environ)
     IN IF g.raised # "none"
        THEN /\ VoiceExit(1, g.err)
             /\ UNCHANGED <<provider, calls>>
        ELSE /\ provider' = g.provider
             /\ calls' = << >>
             /\ verr' = verr \o g.err
             /\ vpc' = "dispatch"
             /\ UNCHANGED exit_code
  /\ UNCHANGED <<pdf_vars, args, environ, op, result, clock>>

\* the operation main asks for (lines 279-289): --status before --hangup
operation(a) ==
  IF a.status THEN "get_status" ELSE IF a.hangup THEN "hangup"
  ELSE "initiate_call"

\* what the provider's service answers to a status request
RemoteStatuses == {"queued", "in-progress", "completed"}

\* the operation on the MockProvider
mock_operation(name, self_calls, now, a) ==
  IF name = "get_status" THEN get_status(self_calls, a.call_id)
  ELSE IF name = "hangup" THEN hangup(self_calls, a.call_id)
  ELSE initiate_call(self_calls, now, a.to, a.message, a.ssml, a.webhook_url)

\* the results a TwilioProvider or TelnyxProvider operation can return
\* (lines 110-136, 157-228), wherever the remote service leads it
remote_results(cls, name, a) ==
  IF name = "initiate_call"
  THEN {[success |-> TRUE, call_id |-> <<"C", "A", "1", "2">>,
         status |-> IF cls = "Twilio" THEN "queued" ELSE "active"]}
  ELSE IF name = "hangup"
  THEN {[success |-> TRUE, call_id |-> a.call_id, status |-> "completed"]}
  ELSE {[success |-> TRUE, call_id |-> a.call_id, status |-> s] :
          s \in RemoteStatuses}

\* main, lines 279-289: the one operation of the run, on the provider that
\* get_provider returned.  A Twilio operation that fails raises; a Telnyx
\* operation that fails prints the error and returns success False.
Dispatch ==
  /\ vpc = "dispatch"
  /\ LET name == operation(args)
     IN /\ op' = [name |-> name,
                  call_id |-> IF name = "initiate_call" THEN None
                              ELSE args.call_id,
                  by |-> provider]
        /\ IF provider = "Mock"
           THEN LET r == mock_operation(name, calls, clock, args)
                IN /\ calls' = r.calls
                   /\ IF r.raised
                      THEN /\ VoiceExit(1, <<r.result.raised>>)
                           /\ UNCHANGED result
                      ELSE /\ result' = r.result
                           /\ vpc' = "exit"
                           /\ UNCHANGED <<verr, exit_code>>
           ELSE /\ UNCHANGED calls
                /\ \/ /\ result' \in remote_results(provider, name, args)
                      /\ vpc' = "exit"
                      /\ UNCHANGED <<verr, exit_code>>
                   \/ /\ provider = "Twilio"
                      /\ VoiceExit(1, <<"TwilioRestException">>)
                      /\ UNCHANGED result
                   \/ /\ provider = "Telnyx"
                      /\ result' = [success |-> FALSE, error |-> "request-failed"]
                      /\ verr' = Append(verr, "request-failed")
                      /\ vpc' = "exit"
                      /\ UNCHANGED exit_code
  /\ UNCHANGED <<pdf_vars, args, environ, provider, selections, clock>>

\* main, line 291: sys.exit(0 if result.get('success') else 1)
Exit ==
  /\ vpc = "exit"
  /\ VoiceExit(IF Success(result) THEN 0 ELSE 1, << >>)
  /\ UNCHANGED <<pdf_vars, args, environ, provider, calls, op, result,
                 selections, clock>>

VoiceNext == Validate \/ GetProvider \/ Dispatch \/ Exit

\* one invocation of voice_call.py
VoiceSpec == VoiceInit /\ [][VoiceNext]_vars

(***************************************************************************)
(* A MockProvider object and the operations called on it, in any order.    *)
(***************************************************************************)
\* provider = MockProvider()
MockInit ==
  /\ PdfIdle
  /\ vpc = "object"
  /\ args = [none |-> TRUE]
  /\ environ = [none |-> TRUE]
  /\ provider = "Mock"
  /\ calls = << >>
  /\ op = NoOp
  /\ result = NoResult
  /\ verr = << >>
  /\ selections = 1
  /\ clock = 1
  /\ exit_code = -1

\* the call ids the operations are given: those of calls that may exist,
\* and one that no MockProvider issues
CallIds == {MockId(t) : t \in 1..MaxClock} \cup {<<"C", "A", "1", "2">>}

\* message and ssml of an initiate_call
Messages == {<<<<"H", "e", "l", "l", "o">>, None>>, <<None, <<"<", "s", "p", "e", "a", "k", "/", ">">>>>, <<None, None>>}

\* the operation name(call_id) on the object; an exception leaves no result
MockCall(name, call_id, r) ==
  /\ op' = [name |-> name, call_id |-> call_id, by |-> provider]
  /\ calls' = r.calls
  /\ result' = r.result
  /\ UNCHANGED <<pdf_vars, vpc, args, environ, provider, verr, selections,
                 clock, exit_code>>

\* provider.initiate_call(to, message, ssml)
InitiateCall ==
  /\ vpc = "object"
  /\ \E m \in Messages :
       MockCall("initiate_call", MockId(clock),
                initiate_call(calls, clock, <<"+", "1", "5", "5", "5", "5", "5", "5", "0", "1", "2", "3">>, m[1], m[2], None))

\* provider.get_status(call_id)
GetStatus ==
  /\ vpc = "object"
  /\ \E call_id \in CallIds :
       MockCall("get_status", call_id, get_status(calls, call_id))

\* provider.hangup(call_id)
Hangup ==
  /\ vpc = "object"
  /\ \E call_id \in CallIds :
       MockCall("hangup", call_id, hangup(calls, call_id))

\* datetime.now() moves to the next second
Tick ==
  /\ vpc = "object"
  /\ clock < MaxClock
  /\ clock' = clock + 1
  /\ UNCHANGED <<pdf_vars, vpc, args, environ, provider, calls, op, result,
                 verr, selections, exit_code>>

MockNext == InitiateCall \/ GetStatus \/ Hangup \/ Tick

MockSpec == MockInit /\ [][MockNext]_vars

\* C11: with the page target "all" the pages 0..N-1 are processed in
\* ascending order, one per iteration, each at most once, and all N of them
\* by the time the document is saved
C11_AscendingOnce ==
  lower(page) = <<"a", "l", "l">> /\ pc \in {"loop", "done"}
    => /\ pages_to_edit = [i \in 1..Len(doc) |-> i - 1]
       /\ Len(edits) = k - 1
       /\ \A i \in DOMAIN edits : edits[i].page_num = i - 1
       /\ \A i, j \in DOMAIN edits :
            edits[i].page_num = edits[j].page_num => i = j
       /\ pc = "done" => Len(edits) = Len(doc)

\* a run over "all" that has processed two pages and saved
C11_Witness ==
  /\ pc = "done"
  /\ lower(page) = <<"a", "l", "l">>
  /\ Len(edits) >= 2
  /\ edits[1].page_num = 0 /\ edits[2].page_num = 1

\* the typed instruction is update (the )?date to 'X' from its first to its
\* last character, X between quotes
DateShape(s) ==
  LET m == DateAt(s, 1)
  IN /\ m.matched
     /\ m.a1 > 1 /\ IsQuote(s[m.a1 - 1])
     /\ m.a1 + Len(m.g1) = Len(s) /\ IsQuote(s[Len(s)])

\* C12: an instruction update (the )?date to 'X' yields kind update-date
\* with new_text = X and no old_text, and replaces no text of the page
C12_UpdateDate ==
  \A i \in DOMAIN edits :
    DateShape(instruction)
      => /\ edits[i].kind = "update-date"
         /\ edits[i].new_text = DateAt(instruction, 1).g1
         /\ edits[i].old_text = << >>
         /\ Redactions = {}
         /\ doc = disk[pdf_path].pages

\* the title sub-case (lines 116-125) is the branch a page took
TitleSubCase(e) == e.kind = "title"

\* C13: the title sub-case applies only when the general change pattern
\* has failed; an instruction that then matches change (the )?title to 'X'
\* gives a change edit with old_text "Title" and new_text X; an instruction
\* the general change pattern matches never takes the title sub-case
C13_TitleSubCase ==
  \A i \in DOMAIN edits :
    LET il == instruction_lower
        t == title_match(il)
    IN /\ TitleSubCase(edits[i]) => ~change_match(il).matched
       /\ change_match(il).matched => ~TitleSubCase(edits[i])
       /\ (~gate_replace(il) /\ gate_change(il) /\ ~change_match(il).matched
             /\ t.matched)
            => /\ TitleSubCase(edits[i])
               /\ edits[i].old_text = <<"T", "i", "t", "l", "e">>
               /\ edits[i].new_text = typed1(t)

\* the lines printed for page pn
PageLines(pn) == {j \in DOMAIN stdout : stdout[j].page_num = pn}

\* C14: every processed page has a printed line that says what was changed
\* or that nothing matched; no target page is processed silently
C14_LinePerPage ==
  /\ \A i \in DOMAIN edits : PageLines(edits[i].page_num) # {}
  /\ pc = "done"
       => \A i \in DOMAIN pages_to_edit : PageLines(pages_to_edit[i]) # {}

\* the path the user asked for: args.output, or the input path
requested_path == IF args_output = "None" THEN pdf_path ELSE args_output

SavedLines == {j \in DOMAIN stdout : stdout[j].msg = "saved"}

ExpectedProvider(env) ==
  LET v == IF env.VOICE_PROVIDER.set THEN lower(env.VOICE_PROVIDER.value)
           ELSE <<"m", "o", "c", "k">>
  IN IF v = <<"t", "w", "i", "l", "i", "o">> THEN "Twilio"
     ELSE IF v = <<"t", "e", "l", "n", "y", "x">> THEN "Telnyx"
     ELSE "Mock"

\* C16: the provider is selected once, after argument validation and
\* before the operation is dispatched, from the VOICE_PROVIDER value in any
\* letter case (default mock); it is Mock, Twilio or Telnyx, plivo and
\* every unknown name giving Mock; and the selected provider handles the
\* one operation of the run
C16_ProviderSelectedOnce ==
  /\ [](/\ selections \in {0, 1}
        /\ (vpc = "validate") => (selections = 0 /\ provider = "none")
        /\ (vpc \in {"dispatch", "exit"}) => (selections = 1)
        /\ provider # "none"
             => /\ selections = 1
                /\ provider \in {"Mock", "Twilio", "Telnyx"}
                /\ provider = ExpectedProvider(environ)
        /\ op # NoOp
             => /\ op.by = provider
                /\ provider # "none"
                /\ op.name = operation(args))
  /\ [][/\ (selections' # selections) => (vpc = "get_provider")
        /\ (vpc' = "get_provider") => (vpc = "validate")
        /\ (provider' # provider) => (vpc = "get_provider")
        /\ (op' # op)
             => (vpc = "dispatch" /\ op = NoOp /\ vpc' # "dispatch")]_vars

\* VOICE_PROVIDER=TWILIO with credentials: the TwilioProvider has handled
\* the operation of the run
C16_Witness ==
  /\ vpc = "done"
  /\ environ.VOICE_PROVIDER.value = <<"T", "W", "I", "L", "I", "O">>
  /\ provider = "Twilio"
  /\ op.by = "Twilio"
  /\ selections = 1

\* the place of a status on queued -> in-progress -> completed
Rank(s) == IF s = "queued" THEN 0 ELSE IF s = "in-progress" THEN 1 ELSE 2

\* C18: under get_status and hangup the status of a MockProvider call only
\* moves forward on queued -> in-progress -> completed: get_status advances
\* it by one step until completed, hangup sets it to completed, completed
\* stays, and an id that was never initiated gives an error result and
\* leaves the calls as they were
C18_StatusForward ==
  [][(clock' = clock /\ op'.name \in {"get_status", "hangup"})
       => LET id == op'.call_id
          IN IF id \notin DOMAIN calls
             THEN /\ calls' = calls
                  /\ "error" \in DOMAIN result'
                  /\ ~Success(result')
             ELSE /\ DOMAIN calls' = DOMAIN calls
                  /\ \A c \in DOMAIN calls \ {id} : calls'[c] = calls[c]
                  /\ calls'[id].status \in {"queued", "in-progress", "completed"}
                  /\ Rank(calls'[id].status) >= Rank(calls[id].status)
                  /\ (calls[id].status = "completed")
                       => (calls'[id].status = "completed")
                  /\ (op'.name = "hangup")
                       => (calls'[id].status = "completed")
                  /\ (op'.name = "get_status" /\ calls[id].status # "completed")
                       => Rank(calls'[id].status) = Rank(calls[id].status) + 1
                  /\ "error" \notin DOMAIN result']_vars

\* a call that get_status has taken to completed, and a get_status of an
\* unknown id answered with an error
C18_Witness ==
  /\ vpc = "object"
  /\ op.name = "get_status"
  /\ \E id \in DOMAIN calls :
       /\ calls[id].status = "completed"
       /\ "duration" \in DOMAIN calls[id]
       /\ op.call_id = id
       /\ result = calls[id]

====
